---- MODULE Spec2Model ----
(***************************************************************************)
(* Model of the fashion-flux helpers: src/style_transfer/utils.py (tensor  *)
(* and image transforms) and src/gradio_fronend.py (the two remote calls). *)
(*                                                                         *)
(* Every helper is a function of its arguments.  A call is modelled as a   *)
(* call frame: `fn` names the function, `args` holds the arguments drawn   *)
(* by the initial condition, `pc` is the position of the call and `ret`    *)
(* what it returned or raised (with the caller's objects as the call left  *)
(* them, where a helper writes in place, and the calls in progress of the  *)
(* recursive scan_files_in_dir).  `net` is the HTTP exchange of the        *)
(* front-end callbacks.                                                    *)
(*                                                                         *)
(* Real numbers are fixed point: an element x of a float tensor is the     *)
(* integer x * Unit.  The bounds are chosen so that every product and      *)
(* square root of the model is exact; floating-point rounding is modelled  *)
(* only where a result is truncated to an integer (repaint_result), there  *)
(* bit for bit.                                                            *)
(***************************************************************************)
EXTENDS Integers, Sequences, FiniteSets, TLC

VARIABLES fn, pc, args, ret, net

vars == <<fn, pc, args, ret, net>>

\* No HTTP exchange: the state of `net` for the helpers of utils.py.
NoNet == [posts |-> 0, inflight |-> <<>>, response |-> <<>>]

None == [kind |-> "none"]

\* ------------------------------------------------------------------------
\* Tensors: a shape and one value per index.  Indices are 1-based here,
\* dimensions and slices keep Python's 0-based, negative-from-the-end form.
\* ------------------------------------------------------------------------

Max(a, b) == IF a >= b THEN a ELSE b

Min(a, b) == IF a <= b THEN a ELSE b

RECURSIVE MaxOf(_)
MaxOf(s) == IF Len(s) = 0 THEN 0 ELSE Max(Head(s), MaxOf(Tail(s)))

RECURSIVE Pow(_, _)
Pow(b, e) == IF e = 0 THEN 1 ELSE b * Pow(b, e - 1)

Idx(shape) ==
  { i \in [1..Len(shape) -> 1..MaxOf(shape)] : \A k \in 1..Len(shape) : i[k] <= shape[k] }

Tensor(shape, data) == [shape |-> shape, data |-> data]

\* Row-major position of an index, 0-based.
RECURSIVE Linear(_, _)
Linear(shape, i) ==
  IF Len(shape) = 0 THEN 0
  ELSE Linear(SubSeq(shape, 1, Len(shape) - 1), SubSeq(i, 1, Len(i) - 1))
         * shape[Len(shape)] + (i[Len(i)] - 1)

\* Position (1-based) of Python dimension d in a tensor of the given rank.
Axis(rank, d) == IF d < 0 THEN d + rank + 1 ELSE d + 1

\* t[..., lo:hi, ...] along Python dimension d.
Slice(t, d, lo, hi) ==
  LET k   == Axis(Len(t.shape), d)
      top == Min(hi, t.shape[k])
      n   == Max(0, top - lo)
      shp == [t.shape EXCEPT ![k] = n]
  IN  Tensor(shp, [i \in Idx(shp) |-> t.data[[i EXCEPT ![k] = @ + lo]]])

\* torch.cat of two tensors along d: sizes must agree in every other dimension.
CatOk(a, b, d) ==
  /\ Len(a.shape) = Len(b.shape)
  /\ \A k \in 1..Len(a.shape) : k # Axis(Len(a.shape), d) => a.shape[k] = b.shape[k]

Cat(a, b, d) ==
  LET k   == Axis(Len(a.shape), d)
      shp == [a.shape EXCEPT ![k] = @ + b.shape[k]]
  IN  Tensor(shp, [i \in Idx(shp) |-> IF i[k] <= a.shape[k] THEN a.data[i]
                             ELSE b.data[[i EXCEPT ![k] = @ - a.shape[k]]]])

\* Elementwise a + b (same shape), and a tensor times a per-batch scalar
\* of shape (B,1,1,1), the broadcast of alphas_cumprod[timesteps, None, None, None].
Add(a, b) == Tensor(a.shape, [i \in Idx(a.shape) |-> a.data[i] + b.data[i]])

Sub(a, b) == Tensor(a.shape, [i \in Idx(a.shape) |-> a.data[i] - b.data[i]])

\* ------------------------------------------------------------------------
\* Fixed-point reals
\* ------------------------------------------------------------------------

\* sqrt(1 - alpha_cumprod) takes the values 0/SDen .. SDen/SDen.
SDen == 3

\* dream_detail_preservation ranges over 0..MaxP.
MaxP == 2

Unit == Pow(SDen, MaxP + 1)

FxMul(a, b) == (a * b) \div Unit

\* x ** 0.5, for the x whose root is representable.
FxSqrt(x) == CHOOSE r \in 0..Unit : r * r = x * Unit

\* b ** e for an integer exponent; like torch, 0 ** 0 = 1.
RECURSIVE FxPow(_, _)
FxPow(b, e) == IF e = 0 THEN Unit ELSE FxMul(b, FxPow(b, e - 1))

\* A (B,1,1,1) tensor times a (B,C,H,W) tensor, broadcast over C, H, W.
MulBroadcast(s, t) ==
  Tensor(t.shape, [i \in Idx(t.shape) |-> FxMul(s.data[<<i[1], 1, 1, 1>>], t.data[i])])

\* A tensor of whole numbers in -2..2 picked by a seed: distinct seeds and
\* distinct positions give distinct patterns.
Gen(shape, seed) ==
  Tensor(shape, [i \in Idx(shape) |-> Unit * ((((Linear(shape, i) + 1) * (seed + 1) + seed) % 5) - 2)])

TensorSeeds == 0..2

\* ------------------------------------------------------------------------
\* compute_dream_and_update_latents_for_inpaint
\* ------------------------------------------------------------------------

\* Channels of the latent that are not conditioning channels (the `:4` / `4:`).
LatentChannels == 4

\* Batch sizes 1..MaxBatch, 0..MaxCond conditioning channels after the latent.
MaxBatch == 2

MaxCond == 1

\* noise_scheduler.alphas_cumprod: one value per timestep 0..SDen, decreasing
\* from 1 to 0, with 1 - alpha a square so that its root is exact.
alphas_cumprod ==
  [t \in 1..(SDen + 1) |-> (SDen * SDen - (t - 1) * (t - 1)) * Pow(SDen, MaxP - 1)]

PredictionTypes == {"epsilon", "v_prediction", "sample"}

\* alphas_cumprod[timesteps, None, None, None]
alphas_at(timesteps) ==
  Tensor(<<Len(timesteps), 1, 1, 1>>, [i \in Idx(<<Len(timesteps), 1, 1, 1>>) |-> alphas_cumprod[timesteps[i[1]] + 1]])

sqrt_one_minus_alphas_cumprod(timesteps) ==
  LET a == alphas_at(timesteps)
  IN  Tensor(a.shape, [i \in Idx(a.shape) |-> FxSqrt(Unit - a.data[i])])

\* Faulty variant of dream_lambda: s * p in place of s ** p.
dream_lambda_times(s, p) == Tensor(s.shape, [i \in Idx(s.shape) |-> s.data[i] * p])

dream_lambda(s, p) == Tensor(s.shape, [i \in Idx(s.shape) |-> FxPow(s.data[i], p)])

\* Faulty variant of prediction_branch: "v_prediction" is taken for "epsilon".
prediction_branch_lenient(prediction_type) ==
  IF prediction_type \in {"epsilon", "v_prediction"} THEN "epsilon" ELSE "ValueError"

\* Which branch of the prediction_type test the call takes.
prediction_branch(prediction_type) ==
  IF prediction_type = "epsilon" THEN "epsilon"
  ELSE IF prediction_type = "v_prediction" THEN "NotImplementedError"
  ELSE "ValueError"

\* delta_noise = (noise - predicted_noise).detach(); delta_noise.mul_(dream_lambda)
delta_noise(a) ==
  MulBroadcast(dream_lambda(sqrt_one_minus_alphas_cumprod(a.timesteps),
                            a.dream_detail_preservation),
               Sub(a.noise, a.pred))

\* Faulty variant of rectified_latents: delta_noise is added without the
\* sqrt(1 - alpha) factor.
rectified_latents_unscaled(a) ==
  Cat(Add(Slice(a.noisy_latents, 1, 0, LatentChannels), delta_noise(a)),
      Slice(a.noisy_latents, 1, LatentChannels, a.noisy_latents.shape[2]), 1)

\* noisy_latents[:, :4].add(sqrt_one_minus_alphas_cumprod * delta_noise),
\* then torch.cat([_noisy_latents, noisy_latents[:, 4:]], dim=1)
rectified_latents(a) ==
  Cat(Add(Slice(a.noisy_latents, 1, 0, LatentChannels),
          MulBroadcast(sqrt_one_minus_alphas_cumprod(a.timesteps), delta_noise(a))),
      Slice(a.noisy_latents, 1, LatentChannels, a.noisy_latents.shape[2]), 1)

\* The caller's tensors as the call leaves them: noise - predicted_noise is a
\* new tensor, the only one written in place (mul_); noisy_latents[:, :4].add
\* and target.add return new tensors.
dream_arguments_after(a) ==
  [noise |-> a.noise, noisy_latents |-> a.noisy_latents, target |-> a.target]

\* The result record carries, beside the returned pair, the caller's tensors
\* as the call leaves them.
compute_dream_and_update_latents_for_inpaint(a) ==
  LET branch == prediction_branch(a.prediction_type)
  IN  IF branch = "epsilon"
      THEN [kind |-> "return",
            noisy_latents |-> rectified_latents(a),
            target |-> Add(a.target, delta_noise(a)),
            caller |-> dream_arguments_after(a)]
      ELSE [kind |-> "raise", error |-> branch, caller |-> dream_arguments_after(a)]

DreamTimesteps(b) ==
  { [k \in 1..b |-> (t0 + k - 1) % (SDen + 1)] : t0 \in 0..SDen }

DreamArgs ==
  { [timesteps |-> ts,
     noise |-> Gen(<<Len(ts), LatentChannels, 1, 1>>, sn),
     pred |-> Gen(<<Len(ts), LatentChannels, 1, 1>>, sp),
     noisy_latents |-> Gen(<<Len(ts), LatentChannels + c, 1, 1>>, sx),
     target |-> Gen(<<Len(ts), LatentChannels, 1, 1>>, sx + 1),
     prediction_type |-> pt,
     dream_detail_preservation |-> p] :
    c \in 0..MaxCond, sn \in TensorSeeds, sp \in TensorSeeds,
    sx \in TensorSeeds, pt \in PredictionTypes, p \in 0..MaxP,
    ts \in UNION { DreamTimesteps(n) : n \in 1..MaxBatch } }

InitDream ==
  /\ fn = "compute_dream_and_update_latents_for_inpaint"
  /\ pc = "call"
  /\ args \in DreamArgs
  /\ ret = None
  /\ net = NoNet

Dream ==
  /\ fn = "compute_dream_and_update_latents_for_inpaint"
  /\ pc = "call"
  /\ ret' = compute_dream_and_update_latents_for_inpaint(args)
  /\ pc' = ret'.kind
  /\ UNCHANGED <<fn, args, net>>

NextDream == Dream

SpecDream == InitDream /\ [][NextDream]_vars

DreamReturned == fn = "compute_dream_and_update_latents_for_inpaint" /\ pc = "return"

\* sqrt(1 - alpha_cumprod[t]) of batch element b, stated from the schedule.
IsRootAt(s, b) ==
  /\ s \in 0..Unit
  /\ s * s = (Unit - alphas_cumprod[args.timesteps[b] + 1]) * Unit

\* C1 as written: with dream_detail_preservation = 0 the returned noisy
\* latents and target equal the inputs.
C1_Unchanged ==
  (DreamReturned /\ args.dream_detail_preservation = 0)
    => /\ ret.noisy_latents = args.noisy_latents
       /\ ret.target = args.target

\* C1 amended: with dream_detail_preservation = 0 the weight lambda is 1, so
\* the returned target is target + (noise - pred) and the first 4 channels of
\* the returned noisy latents are noisy + sqrt(1 - alpha) * (noise - pred);
\* the target comes back unchanged exactly when the prediction equals the noise.
C1_LambdaIsOne ==
  (DreamReturned /\ args.dream_detail_preservation = 0)
    => /\ \A i \in Idx(args.target.shape) :
            ret.target.data[i] = args.target.data[i] + (args.noise.data[i] - args.pred.data[i])
       /\ \A i \in Idx(args.noise.shape) : \E s \in 0..Unit :
            /\ IsRootAt(s, i[1])
            /\ ret.noisy_latents.data[i] =
                 args.noisy_latents.data[i]
                   + (s * (args.noise.data[i] - args.pred.data[i])) \div Unit
       /\ (ret.target = args.target) <=> (args.noise = args.pred)

C1_Witness ==
  /\ DreamReturned
  /\ args.dream_detail_preservation = 0
  /\ ret.target # args.target
  /\ ret.noisy_latents # args.noisy_latents

\* C2: the call returns only for prediction_type "epsilon"; "v_prediction"
\* raises NotImplementedError and every other string raises ValueError.
C2_OnlyEpsilonReturns ==
  (fn = "compute_dream_and_update_latents_for_inpaint" /\ pc # "call")
    => /\ (pc = "return") <=> (args.prediction_type = "epsilon")
       /\ args.prediction_type = "v_prediction"
            => (pc = "raise" /\ ret.error = "NotImplementedError")
       /\ args.prediction_type \notin {"epsilon", "v_prediction"}
            => (pc = "raise" /\ ret.error = "ValueError")

C2_Witness ==
  /\ fn = "compute_dream_and_update_latents_for_inpaint"
  /\ pc = "raise"
  /\ args.prediction_type = "v_prediction"
  /\ ret.error = "NotImplementedError"

\* C3: for epsilon, with s = sqrt(1 - alpha_cumprod[t]), lambda = s ** p and
\* delta = lambda * (noise - pred): the first 4 channels of the result are
\* noisy + s * delta, the channels from index 4 on and the channel count are
\* those of the input, and the returned target is target + delta.
C3_DreamFormula ==
  DreamReturned
    => /\ ret.noisy_latents.shape = args.noisy_latents.shape
       /\ ret.target.shape = args.target.shape
       /\ \A i \in Idx(args.noisy_latents.shape) : \E s \in 0..Unit :
            /\ IsRootAt(s, i[1])
            /\ IF i[2] <= 4
               THEN LET delta == FxMul(FxPow(s, args.dream_detail_preservation),
                                       args.noise.data[i] - args.pred.data[i])
                    IN  /\ ret.noisy_latents.data[i] =
                             args.noisy_latents.data[i] + FxMul(s, delta)
                        /\ ret.target.data[i] = args.target.data[i] + delta
               ELSE ret.noisy_latents.data[i] = args.noisy_latents.data[i]

C3_Witness ==
  /\ DreamReturned
  /\ args.dream_detail_preservation = 2
  /\ args.noisy_latents.shape[2] > 4
  /\ \E i \in Idx(args.noise.shape) :
       /\ ret.target.data[i] # args.target.data[i]
       /\ ret.noisy_latents.data[i] # args.noisy_latents.data[i]
       /\ ret.noisy_latents.data[i] - args.noisy_latents.data[i]
            # ret.target.data[i] - args.target.data[i]

\* ------------------------------------------------------------------------
\* compute_vae_encodings
\* ------------------------------------------------------------------------

\* The same image is encoded MaxCalls times by the same encoder.
MaxCalls == 2

\* vae.config.scaling_factor, in fixed point: 1/SDen, 1 and 2.
ScalingFactors == {Unit \div SDen, Unit, 2 * Unit}

\* The frozen encoder: vae.encode(x).latent_dist is a diagonal Gaussian whose
\* mean is a fixed function of the image (here channel c of the latent reads
\* image channel ((c - 1) mod C) + 1) and whose standard deviation `std` is a
\* property of the encoder (0 for an encoder that predicts no variance).
latent_mean(image) ==
  Tensor([image.shape EXCEPT ![2] = LatentChannels],
         [i \in Idx([image.shape EXCEPT ![2] = LatentChannels]) |->
            image.data[[i EXCEPT ![2] = ((i[2] - 1) % image.shape[2]) + 1]]])

\* latent_dist.sample(): mean + std * eps, eps the random draw of this call.
latent_dist_sample(image, vae, eps) ==
  LET mean == latent_mean(image)
  IN  Tensor(mean.shape, [i \in Idx(mean.shape) |-> mean.data[i] + FxMul(vae.std, eps.data[i])])

\* Faulty variant of compute_vae_encodings: the scaling factor is left out.
compute_vae_encodings_unscaled(image, vae, eps) == latent_dist_sample(image, vae, eps)

\* model_input = vae.encode(pixel_values).latent_dist.sample() * vae.config.scaling_factor
compute_vae_encodings(image, vae, eps) ==
  LET sample == latent_dist_sample(image, vae, eps)
  IN  Tensor(sample.shape,
             [i \in Idx(sample.shape) |-> FxMul(sample.data[i], vae.config.scaling_factor)])

VaeArgs ==
  { [image |-> Gen(<<b, 3, 1, 1>>, si),
     vae |-> [std |-> sd, config |-> [scaling_factor |-> sf]]] :
    b \in 1..MaxBatch, si \in TensorSeeds, sd \in {0, Unit}, sf \in ScalingFactors }

\* The draws the random number generator can hand to one call.
VaeDraws(image) == { Gen([image.shape EXCEPT ![2] = LatentChannels], se) : se \in TensorSeeds }

InitVae ==
  /\ fn = "compute_vae_encodings"
  /\ pc = "call"
  /\ args \in VaeArgs
  /\ ret = <<>>
  /\ net = NoNet

\* One call; `ret` collects what the successive calls returned, each with
\* the draw made inside it.
Encode ==
  /\ fn = "compute_vae_encodings"
  /\ pc = "call"
  /\ \E eps \in VaeDraws(args.image) :
       ret' = Append(ret, [kind |-> "return", draw |-> eps,
                           latent |-> compute_vae_encodings(args.image, args.vae, eps)])
  /\ pc' = IF Len(ret') = MaxCalls THEN "return" ELSE "call"
  /\ UNCHANGED <<fn, args, net>>

NextVae == Encode

SpecVae == InitVae /\ [][NextVae]_vars

\* C4 as written: two calls with the same image and the same encoder return
\* the same latent.
C4_Deterministic ==
  fn = "compute_vae_encodings"
    => \A j, k \in 1..Len(ret) : ret[j].latent = ret[k].latent

\* C4 amended: every call returns (mean + std * eps) * scaling_factor for the
\* draw eps made inside it, so two calls with the same image and encoder
\* return the same latent when their draws coincide or the encoder's std is 0.
C4_SampleTimesScaling ==
  fn = "compute_vae_encodings"
    => /\ \A k \in 1..Len(ret) : \A i \in Idx(ret[k].latent.shape) :
            ret[k].latent.data[i] =
              ((latent_mean(args.image).data[i]
                  + (args.vae.std * ret[k].draw.data[i]) \div Unit)
                * args.vae.config.scaling_factor) \div Unit
       /\ \A j, k \in 1..Len(ret) :
            (ret[j].draw = ret[k].draw \/ args.vae.std = 0) => ret[j].latent = ret[k].latent

C4_Witness ==
  /\ fn = "compute_vae_encodings"
  /\ pc = "return"
  /\ args.vae.std > 0
  /\ args.vae.config.scaling_factor # Unit
  /\ ret[1].draw = ret[2].draw
  /\ ret[1].latent = ret[2].latent
  /\ ret[1].latent # latent_mean(args.image)

\* ------------------------------------------------------------------------
\* concat_images
\* ------------------------------------------------------------------------

\* 1..MaxImages images of sides 1..MaxSide, divider 0..MaxDivider, 1..MaxCols columns.
MaxImages == 3

MaxSide == 2

MaxDivider == 2

MaxCols == 3

\* math.ceil(a / b) for positive integers.
CeilDiv(a, b) == (a + b - 1) \div b

\* The loop of lines 288-295: the offset each image is pasted at, from image
\* i on, with the running x_offset and y_offset.
RECURSIVE paste_offsets(_, _, _, _, _, _)
paste_offsets(images, divider, cols, i, x_offset, y_offset) ==
  IF i > Len(images) THEN <<>>
  ELSE LET wrap == (i % cols = 0)   \* (i + 1) % cols == 0 for the 0-based i of the code
       IN  <<[x |-> x_offset, y |-> y_offset]>> \o
           paste_offsets(images, divider, cols, i + 1,
                         IF wrap THEN 0 ELSE x_offset + images[i].w + divider,
                         IF wrap THEN y_offset + images[i].h + divider ELSE y_offset)

concat_images(images, divider, cols) ==
  LET widths       == [i \in 1..Len(images) |-> images[i].w]
      heights      == [i \in 1..Len(images) |-> images[i].h]
      total_width  == cols * MaxOf(widths) + divider * (cols - 1)
      rows         == CeilDiv(Len(images), cols)
      total_height == MaxOf(heights) * rows + divider * ((Len(heights) \div cols) - 1)
  IN  IF total_width < 0 \/ total_height < 0
      THEN [kind |-> "raise", error |-> "ValueError"]   \* Image.new refuses a negative size
      ELSE [kind |-> "return",
            size |-> [w |-> total_width, h |-> total_height],
            pastes |-> paste_offsets(images, divider, cols, 1, 0, 0)]

ImageSizes == { [w |-> w, h |-> h] : w \in 1..MaxSide, h \in 1..MaxSide }

ConcatArgs ==
  { [images |-> im, divider |-> d, cols |-> c] :
    im \in UNION { [1..n -> ImageSizes] : n \in 1..MaxImages },
    d \in 0..MaxDivider, c \in 1..MaxCols }

InitConcat ==
  /\ fn = "concat_images"
  /\ pc = "call"
  /\ args \in ConcatArgs
  /\ ret = None
  /\ net = NoNet

Concat ==
  /\ fn = "concat_images"
  /\ pc = "call"
  /\ ret' = concat_images(args.images, args.divider, args.cols)
  /\ pc' = ret'.kind
  /\ UNCHANGED <<fn, args, net>>

NextConcat == Concat

SpecConcat == InitConcat /\ [][NextConcat]_vars

SameSize(images) == \A i \in 1..Len(images) : images[i] = images[1]

\* C5: for same-size images, image i (0-based) is pasted at column i mod cols
\* and row i div cols, at (column * (width + divider), row * (height + divider)),
\* and the canvas is created and holds every pasted image entirely.
C5_GridInsideCanvas ==
  (fn = "concat_images" /\ pc # "call" /\ SameSize(args.images))
    => /\ pc = "return"
       /\ \A i \in 1..Len(args.images) :
            LET col == (i - 1) % args.cols
                row == (i - 1) \div args.cols
                w   == args.images[i].w
                h   == args.images[i].h
            IN  /\ ret.pastes[i] = [x |-> col * (w + args.divider),
                                    y |-> row * (h + args.divider)]
                /\ ret.pastes[i].x + w <= ret.size.w
                /\ ret.pastes[i].y + h <= ret.size.h

\* ------------------------------------------------------------------------
\* resize_and_crop, resize_and_padding
\* ------------------------------------------------------------------------

\* Image and target sides 1..MaxDim.
MaxDim == 3

\* w / h < target_w / target_h on Python floats: for sides below 2^26 the two
\* quotients compare as the exact fractions do.
RatioLess(w, h, target_w, target_h) == w * target_h < target_w * h

crop_size(w, h, target_w, target_h) ==
  IF RatioLess(w, h, target_w, target_h)
  THEN [new_w |-> w, new_h |-> (w * target_h) \div target_w]
  ELSE [new_w |-> (h * target_w) \div target_h, new_h |-> h]

\* image.crop(box) then image.resize(size, LANCZOS).  `empty_ok` is what the
\* imaging library does with an empty crop, which the source does not decide:
\* it either refuses it or resamples it to the target size.
resize_and_crop(w, h, target_w, target_h, empty_ok) ==
  LET n       == crop_size(w, h, target_w, target_h)
      box     == [left  |-> (w - n.new_w) \div 2, upper |-> (h - n.new_h) \div 2,
                  right |-> (w + n.new_w) \div 2, lower |-> (h + n.new_h) \div 2]
      cropped == [w |-> box.right - box.left, h |-> box.lower - box.upper]
  IN  IF (cropped.w < 1 \/ cropped.h < 1) /\ ~empty_ok
      THEN [kind |-> "raise", error |-> "ValueError", new |-> n, box |-> box]
      ELSE [kind |-> "return", size |-> [w |-> target_w, h |-> target_h],
            new |-> n, box |-> box]

pad_size(w, h, target_w, target_h) ==
  IF RatioLess(w, h, target_w, target_h)
  THEN [new_w |-> (w * target_h) \div h, new_h |-> target_h]
  ELSE [new_w |-> target_w, new_h |-> (h * target_w) \div w]

\* image.resize((new_w, new_h)) refuses a side below 1; otherwise the resized
\* image is pasted on a white canvas of the target size.
resize_and_padding(w, h, target_w, target_h) ==
  LET n   == pad_size(w, h, target_w, target_h)
      off == [x |-> (target_w - n.new_w) \div 2, y |-> (target_h - n.new_h) \div 2]
  IN  IF n.new_w < 1 \/ n.new_h < 1
      THEN [kind |-> "raise", error |-> "ValueError", new |-> n]
      ELSE [kind |-> "return", size |-> [w |-> target_w, h |-> target_h],
            new |-> n, offset |-> off,
            pixels |-> [q \in (0..(target_w - 1)) \X (0..(target_h - 1)) |->
                          IF /\ off.x <= q[1] /\ q[1] < off.x + n.new_w
                             /\ off.y <= q[2] /\ q[2] < off.y + n.new_h
                          THEN "image" ELSE <<255, 255, 255>>]]

GeometryArgs ==
  { [w |-> w, h |-> h, target_w |-> tw, target_h |-> th] :
    w \in 1..MaxDim, h \in 1..MaxDim, tw \in 1..MaxDim, th \in 1..MaxDim }

InitCrop ==
  /\ fn = "resize_and_crop"
  /\ pc = "call"
  /\ args \in GeometryArgs
  /\ ret = None
  /\ net = NoNet

Crop ==
  /\ fn = "resize_and_crop"
  /\ pc = "call"
  /\ \E empty_ok \in BOOLEAN :
       ret' = resize_and_crop(args.w, args.h, args.target_w, args.target_h, empty_ok)
  /\ pc' = ret'.kind
  /\ UNCHANGED <<fn, args, net>>

NextCrop == Crop

SpecCrop == InitCrop /\ [][NextCrop]_vars

\* C7: resize_and_crop returns an image of the requested size for all sides
\* >= 1, and its crop box is non-empty, inside the image and keeps one
\* original dimension.
C7_CropBoxNonEmpty ==
  (fn = "resize_and_crop" /\ pc # "call")
    => /\ pc = "return"
       /\ ret.size = [w |-> args.target_w, h |-> args.target_h]
       /\ ret.new.new_w >= 1 /\ ret.new.new_h >= 1
       /\ ret.new.new_w <= args.w /\ ret.new.new_h <= args.h
       /\ (ret.new.new_w = args.w \/ ret.new.new_h = args.h)

InitPad ==
  /\ fn = "resize_and_padding"
  /\ pc = "call"
  /\ args \in GeometryArgs
  /\ ret = None
  /\ net = NoNet

Pad ==
  /\ fn = "resize_and_padding"
  /\ pc = "call"
  /\ ret' = resize_and_padding(args.w, args.h, args.target_w, args.target_h)
  /\ pc' = ret'.kind
  /\ UNCHANGED <<fn, args, net>>

NextPad == Pad

SpecPad == InitPad /\ [][NextPad]_vars

\* C8: resize_and_padding returns an image of the requested size for all
\* sides >= 1: the resized image has 1 <= new_w <= target_w and
\* 1 <= new_h <= target_h with one of them equal to the target, is pasted at
\* the floor-divided centre offset, and every pixel outside it is white.
C8_PaddedToTarget ==
  (fn = "resize_and_padding" /\ pc # "call")
    => /\ pc = "return"
       /\ ret.size = [w |-> args.target_w, h |-> args.target_h]
       /\ 1 <= ret.new.new_w /\ ret.new.new_w <= args.target_w
       /\ 1 <= ret.new.new_h /\ ret.new.new_h <= args.target_h
       /\ (ret.new.new_w = args.target_w \/ ret.new.new_h = args.target_h)
       /\ ret.offset = [x |-> (args.target_w - ret.new.new_w) \div 2,
                        y |-> (args.target_h - ret.new.new_h) \div 2]
       /\ \A q \in DOMAIN ret.pixels :
            ~(/\ ret.offset.x <= q[1] /\ q[1] < ret.offset.x + ret.new.new_w
              /\ ret.offset.y <= q[2] /\ q[2] < ret.offset.y + ret.new.new_h)
              => ret.pixels[q] = <<255, 255, 255>>

\* ------------------------------------------------------------------------
\* prepare_image
\* ------------------------------------------------------------------------

\* Lists of 1..MaxList images.
MaxList == 2

\* 127.5 is PixelScale / 2; a float f of this function is the integer f * PixelScale.
PixelScale == 255

Palette == <<0, 255, 127, 128, 1, 254, 64>>

\* An array of pixel values 0..255 picked by a seed.
Pixels(shape, seed) ==
  Tensor(shape, [i \in Idx(shape) |->
                   Palette[(((Linear(shape, i) + 1) * (seed + 1) + seed) % Len(Palette)) + 1]])

\* t.unsqueeze(d) / a[None, :] for d = 0.
Unsqueeze(t, d) ==
  LET k   == Axis(Len(t.shape) + 1, d)
      shp == SubSeq(t.shape, 1, k - 1) \o <<1>> \o SubSeq(t.shape, k, Len(t.shape))
  IN  Tensor(shp, [i \in Idx(shp) |->
                     t.data[SubSeq(i, 1, k - 1) \o SubSeq(i, k + 1, Len(i))]])

\* a.transpose(perm): dimension k of the result is dimension perm[k] of a.
Transpose(t, perm) ==
  LET shp == [k \in 1..Len(perm) |-> t.shape[perm[k] + 1]]
  IN  Tensor(shp, [i \in Idx(shp) |->
                     t.data[[m \in 1..Len(perm) |->
                               i[CHOOSE k \in 1..Len(perm) : perm[k] + 1 = m]]]])

\* np.concatenate(arrays, axis=0); the arrays must agree in every other dimension.
RECURSIVE Concatenate(_)
Concatenate(arrays) ==
  IF Len(arrays) = 1 THEN arrays[1]
  ELSE Cat(arrays[1], Concatenate(Tail(arrays)), 0)

ConcatenateOk(arrays) == \A k \in 1..Len(arrays) : CatOk(arrays[1], arrays[k], 0)

\* PIL's convert("RGB"): an "L" image gives its grey value to the three channels.
convert_rgb(im) ==
  IF im.mode = "RGB" THEN im.data
  ELSE Tensor([im.data.shape EXCEPT ![3] = 3],
              [i \in Idx([im.data.shape EXCEPT ![3] = 3]) |-> im.data.data[[i EXCEPT ![3] = 1]]])

\* .to(dtype=torch.float32) of a pixel value.
ToFloat(v) == v * PixelScale

\* Faulty variant of scale_pixel: pixel / 255, the range [0, 1].
scale_pixel_to_unit(v) == ToFloat(v) \div PixelScale

\* ToFloat(v) / 127.5 - 1.0
scale_pixel(v) == (ToFloat(v) * 2) \div PixelScale - PixelScale

Returned(t) == [kind |-> "return", value |-> t]

Raised(e) == [kind |-> "raise", error |-> e]

\* Lines 196-197 on the concatenated array.
transpose_and_scale(array) ==
  IF Len(array.shape) # 4 THEN Raised("ValueError")   \* axes don't match array
  ELSE LET t == Transpose(array, <<0, 3, 1, 2>>)
       IN  Returned(Tensor(t.shape, [i \in Idx(t.shape) |-> scale_pixel(t.data[i])]))

prepare_image(image) ==
  IF image.type = "tensor"
  THEN LET batched == IF Len(image.data.shape) = 3 THEN Unsqueeze(image.data, 0)
                      ELSE image.data
       IN  Returned(Tensor(batched.shape,
                           [i \in Idx(batched.shape) |-> ToFloat(batched.data[i])]))
  ELSE LET items == IF image.type \in {"pil", "ndarray"} THEN <<image>> ELSE image.items
       IN  IF Len(items) = 0 THEN Raised("IndexError")
           ELSE IF items[1].type = "pil"
           THEN IF \E k \in 1..Len(items) : items[k].type # "pil"
                THEN Raised("AttributeError")     \* no convert() on an array or tensor
                ELSE transpose_and_scale(
                       Concatenate([k \in 1..Len(items) |-> Unsqueeze(convert_rgb(items[k]), 0)]))
           ELSE IF items[1].type = "ndarray"
           THEN IF \E k \in 1..Len(items) : items[k].type = "pil"
                THEN Raised("TypeError")          \* a PIL image is not subscriptable
                ELSE IF ~ConcatenateOk([k \in 1..Len(items) |-> items[k].data])
                THEN Raised("ValueError")
                ELSE transpose_and_scale(
                       Concatenate([k \in 1..Len(items) |-> Unsqueeze(items[k].data, 0)]))
           ELSE Raised("AttributeError")          \* a list has no transpose()

\* One image of height h and width w, in each form a list element can take.
ImageForms(h, w) ==
  { [type |-> "pil", mode |-> "RGB", data |-> Pixels(<<h, w, 3>>, sd)] : sd \in TensorSeeds }
  \cup { [type |-> "pil", mode |-> "L", data |-> Pixels(<<h, w, 1>>, sd)] : sd \in TensorSeeds }
  \cup { [type |-> "ndarray", data |-> Pixels(<<h, w, 3>>, sd)] : sd \in TensorSeeds }
  \cup { [type |-> "tensor", data |-> Pixels(<<h, w, 3>>, sd)] : sd \in TensorSeeds }

PrepareImageArgs ==
  UNION { { im \in ImageForms(h, w) : im.type # "tensor" }
          \cup { [type |-> "tensor", data |-> Pixels(shp, sd)] :
                 shp \in {<<h, w>>, <<3, h, w>>, <<1, 3, h, w>>, <<2, 3, h, w>>},
                 sd \in TensorSeeds }
          \cup { [type |-> "list", items |-> items] :
                 items \in UNION { [1..n -> ImageForms(h, w)] : n \in 1..MaxList } } :
          h \in 1..MaxSide, w \in 1..MaxSide }

InitPrepareImage ==
  /\ fn = "prepare_image"
  /\ pc = "call"
  /\ args \in { [image |-> im] : im \in PrepareImageArgs }
  /\ ret = None
  /\ net = NoNet

PrepareImage ==
  /\ fn = "prepare_image"
  /\ pc = "call"
  /\ ret' = prepare_image(args.image)
  /\ pc' = ret'.kind
  /\ UNCHANGED <<fn, args, net>>

NextPrepareImage == PrepareImage

SpecPrepareImage == InitPrepareImage /\ [][NextPrepareImage]_vars

ImageItems(image) == IF image.type = "list" THEN image.items ELSE <<image>>

\* A single PIL image or array, or a list of images of one type.
IsImageOrList(image) ==
  /\ image.type # "tensor"
  /\ \A k \in 1..Len(ImageItems(image)) :
       /\ ImageItems(image)[k].type \in {"pil", "ndarray"}
       /\ ImageItems(image)[k].type = ImageItems(image)[1].type

\* The input pixel that element <<n, c, h, w>> of the result is computed from.
SourcePixel(image, i) ==
  IF image.type = "tensor"
  THEN IF Len(image.data.shape) = 3 THEN image.data.data[Tail(i)] ELSE image.data.data[i]
  ELSE LET it == ImageItems(image)[i[1]]
       IN  IF it.type = "pil" /\ it.mode = "L" THEN it.data.data[<<i[3], i[4], 1>>]
           ELSE it.data.data[<<i[3], i[4], i[2]>>]

\* C6 as written: for a single image, a list of same-shaped images and a
\* tensor alike, the result is a 4-D channel-first batch whose every element
\* is pixel / 127.5 - 1.0.
C6_AllFormsScaled ==
  (/\ fn = "prepare_image"
   /\ pc # "call"
   /\ (IsImageOrList(args.image)
         \/ (args.image.type = "tensor" /\ Len(args.image.data.shape) \in {3, 4})))
    => /\ pc = "return"
       /\ Len(ret.value.shape) = 4
       /\ \A i \in Idx(ret.value.shape) :
            ret.value.data[i] = 2 * SourcePixel(args.image, i) - PixelScale

\* C6 amended: for a single PIL image or array and for a list of same-shaped
\* images of one of these types, the result is the 4-D batch (N, 3, H, W)
\* whose every element is pixel / 127.5 - 1.0, within [-1, 1]; a tensor input
\* is returned as float32 with its values and layout unchanged, gaining a
\* leading batch dimension only when it is 3-D.
C6_ScaledUnlessTensor ==
  (fn = "prepare_image" /\ pc # "call")
    => /\ IsImageOrList(args.image)
            => /\ pc = "return"
               /\ ret.value.shape = <<Len(ImageItems(args.image)), 3,
                                      ImageItems(args.image)[1].data.shape[1],
                                      ImageItems(args.image)[1].data.shape[2]>>
               /\ \A i \in Idx(ret.value.shape) :
                    /\ ret.value.data[i] = 2 * SourcePixel(args.image, i) - PixelScale
                    /\ -PixelScale <= ret.value.data[i] /\ ret.value.data[i] <= PixelScale
       /\ args.image.type = "tensor"
            => /\ pc = "return"
               /\ ret.value.shape = IF Len(args.image.data.shape) = 3
                                    THEN <<1>> \o args.image.data.shape
                                    ELSE args.image.data.shape
               /\ \A i \in Idx(ret.value.shape) :
                    ret.value.data[i] =
                      PixelScale * (IF Len(args.image.data.shape) = 3
                                    THEN args.image.data.data[Tail(i)]
                                    ELSE args.image.data.data[i])

C6_Witness ==
  /\ fn = "prepare_image" /\ pc = "return"
  /\ args.image.type = "list"
  /\ IsImageOrList(args.image)
  /\ ret.value.shape = <<2, 3, 1, 2>>
  /\ args.image.items[1] # args.image.items[2]
  /\ \E i \in Idx(ret.value.shape) : ret.value.data[i] = -PixelScale
  /\ \E i \in Idx(ret.value.shape) : ret.value.data[i] = PixelScale

\* The elements of a list argument are not all of one type.
MixedList(image) ==
  /\ image.type = "list"
  /\ \E k \in 1..Len(image.items) : image.items[k].type # image.items[1].type

\* C15: given a list whose elements are not all of the same type (PIL images,
\* arrays and tensors mixed in any order), prepare_image raises an error and
\* returns no tensor.
C15_MixedListRaises ==
  (fn = "prepare_image" /\ pc # "call" /\ MixedList(args.image))
    => (pc = "raise" /\ "value" \notin DOMAIN ret)

\* Every mixed list that holds a PIL image, and every list that starts with
\* a tensor, is refused.
C15_PilOrTensorFirstRaises ==
  (/\ fn = "prepare_image" /\ pc # "call"
   /\ args.image.type = "list"
   /\ \/ args.image.items[1].type = "tensor"
      \/ MixedList(args.image)
           /\ \E k \in 1..Len(args.image.items) : args.image.items[k].type = "pil")
    => (pc = "raise" /\ "value" \notin DOMAIN ret)

\* ------------------------------------------------------------------------
\* prepare_inpainting_input
\* ------------------------------------------------------------------------

\* Sizes 0..MaxLen of the noisy latents and 1..MaxLen of the condition
\* latents along condition_concat_dim.
MaxLen == 4

\* torch.chunk(t, chunks, dim): pieces of ceil(size / chunks) elements along
\* dim, as many as the size fills (fewer than `chunks` when it is small).
chunk(t, chunks, d) ==
  LET size  == t.shape[Axis(Len(t.shape), d)]
      piece == CeilDiv(size, chunks)
      count == CeilDiv(size, piece)
  IN  [k \in 1..count |-> Slice(t, d, (k - 1) * piece, k * piece)]

\* Faulty variant of condition_half: chunk(2)[0], the first chunk.
condition_half_first(condition_latents, condition_concat_dim) ==
  chunk(condition_latents, 2, condition_concat_dim)[1]

\* condition_latents.chunk(2, dim=condition_concat_dim)[-1]
condition_half(condition_latents, condition_concat_dim) ==
  LET chunks == chunk(condition_latents, 2, condition_concat_dim)
  IN  chunks[Len(chunks)]

prepare_inpainting_input(a) ==
  LET half     == condition_half(a.condition_latents, a.condition_concat_dim)
      appendOk == a.enable_condition_noise
                    \/ CatOk(a.noisy_latents, half, a.condition_concat_dim)
      noisy    == IF a.enable_condition_noise THEN a.noisy_latents
                  ELSE Cat(a.noisy_latents, half, a.condition_concat_dim)
      locals   == IF a.enable_condition_noise THEN [line |-> 95]
                  ELSE [line |-> 95, condition_latents_ |-> half, noisy_latents |-> noisy]
  IN  IF ~appendOk
      THEN [kind |-> "raise", error |-> "RuntimeError", locals |-> [line |-> 94]]
      ELSE IF ~(CatOk(noisy, a.mask_latents, 1) /\ CatOk(noisy, a.condition_latents, 1))
      THEN [kind |-> "raise", error |-> "RuntimeError", locals |-> locals]
      ELSE [kind |-> "return", locals |-> locals,
            value |-> Cat(Cat(noisy, a.mask_latents, 1), a.condition_latents, 1)]

\* The shape with `size` along Python dimension d and `other` along the
\* other spatial dimension.
InpaintShape(channels, d, size, other) ==
  IF Axis(4, d) = 4 THEN <<1, channels, other, size>> ELSE <<1, channels, size, other>>

InpaintArgs ==
  { [noisy_latents |-> Gen(InpaintShape(2, d, n, o), sn),
     mask_latents |-> Gen(InpaintShape(1, d, c, o), 1),
     condition_latents |-> Gen(InpaintShape(2, d, c, o), sc),
     enable_condition_noise |-> e,
     condition_concat_dim |-> d] :
    d \in {-1, -2}, n \in 0..MaxLen, c \in 1..MaxLen, o \in 1..MaxSide,
    sn \in TensorSeeds, sc \in TensorSeeds, e \in BOOLEAN }

InitInpaint ==
  /\ fn = "prepare_inpainting_input"
  /\ pc = "call"
  /\ args \in InpaintArgs
  /\ ret = None
  /\ net = NoNet

Inpaint ==
  /\ fn = "prepare_inpainting_input"
  /\ pc = "call"
  /\ ret' = prepare_inpainting_input(args)
  /\ pc' = ret'.kind
  /\ UNCHANGED <<fn, args, net>>

NextInpaint == Inpaint

SpecInpaint == InitInpaint /\ [][NextInpaint]_vars

\* Line 94 ran: the half of the condition latents was appended.
Appended ==
  /\ fn = "prepare_inpainting_input" /\ pc # "call"
  /\ ~args.enable_condition_noise
  /\ ret.locals.line = 95

CondSize == args.condition_latents.shape[Axis(4, args.condition_concat_dim)]

NoisySize == args.noisy_latents.shape[Axis(4, args.condition_concat_dim)]

\* Element i of the channel-axis concatenation [noisy, mask, condition].
ChannelCat(noisy, i) ==
  LET cn == noisy.shape[2]
      cm == args.mask_latents.shape[2]
  IN  IF i[2] <= cn THEN noisy.data[i]
      ELSE IF i[2] <= cn + cm THEN args.mask_latents.data[[i EXCEPT ![2] = @ - cn]]
      ELSE args.condition_latents.data[[i EXCEPT ![2] = @ - cn - cm]]

\* What the call returns: [noisy, mask, condition] along dim 1.
ChannelCatReturned(noisy) ==
  pc = "return"
    => /\ ret.value.shape = [noisy.shape EXCEPT ![2] = @ + args.mask_latents.shape[2]
                                                         + args.condition_latents.shape[2]]
       /\ \A i \in Idx(ret.value.shape) : ret.value.data[i] = ChannelCat(noisy, i)

\* The noisy latents followed along the concat axis by the condition
\* elements from index `from` on.
AppendedFrom(from, i) ==
  LET k == Axis(4, args.condition_concat_dim)
  IN  IF i[k] <= NoisySize THEN args.noisy_latents.data[i]
      ELSE args.condition_latents.data[[i EXCEPT ![k] = @ - NoisySize + from]]

\* C9 as written: with enable_condition_noise = False the second of the two
\* halves of condition_latents (the elements from index ceil(size / 2) on,
\* never the whole tensor) is appended along condition_concat_dim, for every
\* size including 1; then [noisy, mask, condition] are concatenated along dim 1.
C9_SecondOfTwoChunks ==
  /\ Appended
       => /\ ret.locals.condition_latents_ =
               Slice(args.condition_latents, args.condition_concat_dim,
                     CeilDiv(CondSize, 2), CondSize)
          /\ ret.locals.condition_latents_ # args.condition_latents
          /\ ChannelCatReturned(ret.locals.noisy_latents)
  /\ (fn = "prepare_inpainting_input" /\ args.enable_condition_noise)
       => ChannelCatReturned(args.noisy_latents)

\* C9 amended: with enable_condition_noise = False the last chunk of
\* chunk(2) is appended along condition_concat_dim: the elements from index
\* ceil(size / 2) on (the second of two chunks) when the size is at least 2,
\* and the whole tensor when the size is 1; then [noisy, mask, condition] are
\* concatenated along dim 1.  With enable_condition_noise = True only the
\* channel-axis concatenation happens.
C9_LastChunk ==
  /\ Appended
       => LET from == IF CondSize >= 2 THEN CeilDiv(CondSize, 2) ELSE 0
              k    == Axis(4, args.condition_concat_dim)
          IN  /\ ret.locals.condition_latents_.shape =
                   [args.condition_latents.shape EXCEPT ![k] = CondSize - from]
              /\ \A i \in Idx(ret.locals.condition_latents_.shape) :
                   ret.locals.condition_latents_.data[i] =
                     args.condition_latents.data[[i EXCEPT ![k] = @ + from]]
              /\ ret.locals.noisy_latents.shape =
                   [args.noisy_latents.shape EXCEPT ![k] = @ + CondSize - from]
              /\ \A i \in Idx(ret.locals.noisy_latents.shape) :
                   ret.locals.noisy_latents.data[i] = AppendedFrom(from, i)
              /\ ChannelCatReturned(ret.locals.noisy_latents)
  /\ (fn = "prepare_inpainting_input" /\ args.enable_condition_noise)
       => ChannelCatReturned(args.noisy_latents)

C9_Witness ==
  /\ Appended
  /\ pc = "return"
  /\ CondSize = 3
  /\ args.condition_concat_dim = -1
  /\ ret.value.shape = <<1, 5, 2, 3>>
  /\ ret.locals.condition_latents_.shape = <<1, 2, 2, 1>>

\* ------------------------------------------------------------------------
\* gradio_fronend.py: submit_function, pose_transfer_function
\* ------------------------------------------------------------------------

Frontend == {"submit_function", "pose_transfer_function"}

\* Status codes the remote endpoint may answer with.
Statuses == {200, 201, 204, 404, 500}

\* Response bodies: `json` tells whether the text parses as a JSON object and
\* `fields` is that object, each field a base64 payload that either decodes
\* to an image or does not.
Bodies ==
  { [text |-> "<html>", json |-> FALSE, fields |-> <<>>],
    [text |-> "{}", json |-> TRUE, fields |-> <<>>],
    [text |-> "style", json |-> TRUE,
     fields |-> [masked_image |-> "image:mask", result_image |-> "image:result"]],
    [text |-> "style-bad", json |-> TRUE,
     fields |-> [masked_image |-> "image:mask", result_image |-> "garbage"]],
    [text |-> "style-half", json |-> TRUE, fields |-> [masked_image |-> "image:mask"]],
    [text |-> "pose", json |-> TRUE, fields |-> [result_pose |-> "image:pose"]],
    [text |-> "pose-bad", json |-> TRUE, fields |-> [result_pose |-> "garbage"]] }

IsImage(payload) == payload \in {"image:mask", "image:result", "image:pose"}

\* The fields each callback reads from the JSON body, in the order it reads them.
ResultFields(f) ==
  IF f = "submit_function" THEN <<"masked_image", "result_image">> ELSE <<"result_pose">>

\* The multipart POST each callback builds.
Request(f) ==
  IF f = "submit_function"
  THEN [url |-> "style_transfer_api", files |-> {"person_image", "cloth_image"},
        config_json |-> {"cloth_type", "num_inference_steps", "guidance_scale", "seed"}]
  ELSE [url |-> "pose_transfer_api", files |-> {"person_image", "pose_image"},
        config_json |-> {"num_inference_steps", "guidance_scale", "seed"}]

\* Faulty variant of status_is_ok: any 2xx status counts as success.
status_is_2xx(status_code) == status_code \div 100 = 2

\* response.status_code == 200
status_is_ok(status_code) == status_code = 200

\* response.json(), then base64.b64decode and Image.open of each field read:
\* the first step that fails raises.
RECURSIVE decode_fields(_, _, _)
decode_fields(fields, names, done) ==
  IF names = <<>> THEN [kind |-> "return", images |-> done, decoded |-> done]
  ELSE IF Head(names) \notin DOMAIN fields
  THEN [kind |-> "raise", error |-> "KeyError", decoded |-> done]
  ELSE IF ~IsImage(fields[Head(names)])
  THEN [kind |-> "raise", error |-> "UnidentifiedImageError", decoded |-> done]
  ELSE decode_fields(fields, Tail(names), Append(done, fields[Head(names)]))

handle_response(f, response) ==
  IF status_is_ok(response.status_code)
  THEN IF ~response.body.json
       THEN [kind |-> "raise", error |-> "JSONDecodeError", decoded |-> <<>>]
       ELSE decode_fields(response.body.fields, ResultFields(f), <<>>)
  ELSE [kind |-> "raise", error |-> "RuntimeError", decoded |-> <<>>,
        message |-> [status_code |-> response.status_code, text |-> response.body.text]]

\* Each input image is a file path that can be opened, or one that cannot.
FrontendArgs == { [person_image |-> p, other_image |-> o] : p, o \in {"readable", "missing"} }

InitFrontend ==
  /\ fn \in Frontend
  /\ pc = "call"
  /\ args \in FrontendArgs
  /\ ret = None
  /\ net = NoNet

\* Lines 36-56 / 74-90: open both images and issue the POST.
SendRequest(f) ==
  /\ fn = f
  /\ pc = "call"
  /\ IF args.person_image = "readable" /\ args.other_image = "readable"
     THEN /\ net' = [net EXCEPT !.posts = @ + 1, !.inflight = Append(@, Request(f))]
          /\ pc' = "waiting"
          /\ ret' = ret
     ELSE /\ ret' = [kind |-> "raise", error |-> "FileNotFoundError", decoded |-> <<>>]
          /\ pc' = "raise"
          /\ net' = net
  /\ UNCHANGED <<fn, args>>

SubmitRequest == SendRequest("submit_function")

PoseRequest == SendRequest("pose_transfer_function")

\* The endpoint answers the request in flight.
Respond ==
  /\ pc = "waiting"
  /\ net.inflight # <<>>
  /\ \E st \in Statuses, body \in Bodies :
       net' = [net EXCEPT !.inflight = Tail(@),
                          !.response = <<[status_code |-> st, body |-> body]>>]
  /\ UNCHANGED <<fn, pc, args, ret>>

\* No answer arrives: requests.post raises.
ConnectionFails ==
  /\ pc = "waiting"
  /\ net.inflight # <<>>
  /\ net' = [net EXCEPT !.inflight = Tail(@)]
  /\ ret' = [kind |-> "raise", error |-> "ConnectionError", decoded |-> <<>>]
  /\ pc' = "raise"
  /\ UNCHANGED <<fn, args>>

\* Lines 58-69 / 92-104.
ReceiveResponse(f) ==
  /\ fn = f
  /\ pc = "waiting"
  /\ net.response # <<>>
  /\ ret' = handle_response(f, net.response[1])
  /\ pc' = ret'.kind
  /\ UNCHANGED <<fn, args, net>>

SubmitReceive == ReceiveResponse("submit_function")

PoseReceive == ReceiveResponse("pose_transfer_function")

NextFrontend ==
  \/ SubmitRequest
  \/ PoseRequest
  \/ Respond
  \/ ConnectionFails
  \/ SubmitReceive
  \/ PoseReceive

SpecFrontend == InitFrontend /\ [][NextFrontend]_vars

FrontendDone == fn \in Frontend /\ pc \in {"return", "raise"}

Answered == fn \in Frontend /\ net.response # <<>>

\* The body is the JSON object this callback expects, every field an image.
WellFormed(f, body) ==
  /\ body.json
  /\ \A k \in 1..Len(ResultFields(f)) :
       /\ ResultFields(f)[k] \in DOMAIN body.fields
       /\ IsImage(body.fields[ResultFields(f)[k]])

\* C10 as written: every invocation issues exactly one POST, returns decoded
\* images if and only if the status is exactly 200, and for every other
\* status raises an error carrying the status code and the body, decoding
\* nothing.
C10_OnePostReturnIff200 ==
  FrontendDone
    => /\ net.posts = 1
       /\ (pc = "return") <=> (Answered /\ net.response[1].status_code = 200)
       /\ (Answered /\ net.response[1].status_code # 200)
            => /\ ret.error = "RuntimeError"
               /\ ret.message = [status_code |-> net.response[1].status_code,
                                 text |-> net.response[1].body.text]
               /\ ret.decoded = <<>>

\* C10 amended: an invocation issues at most one POST (no retry): none when
\* an input image cannot be opened, otherwise exactly one; it returns decoded images only if
\* the status is exactly 200, and does return them whenever that 200 body is
\* the JSON object with the expected base64 image fields; for every other
\* status, other 2xx codes included, it raises an error carrying the status
\* code and the body and decodes nothing.
C10_AtMostOnePostReturnOnly200 ==
  fn \in Frontend
    => /\ net.posts <= 1
       /\ (pc = "waiting" \/ Answered) => net.posts = 1
       /\ pc = "return"
            => /\ Answered
               /\ net.response[1].status_code = 200
               /\ ret.images = [k \in 1..Len(ResultFields(fn)) |->
                                  net.response[1].body.fields[ResultFields(fn)[k]]]
       /\ (FrontendDone /\ Answered /\ net.response[1].status_code = 200
             /\ WellFormed(fn, net.response[1].body))
            => pc = "return"
       /\ (FrontendDone /\ Answered /\ net.response[1].status_code # 200)
            => /\ pc = "raise"
               /\ ret.error = "RuntimeError"
               /\ ret.message = [status_code |-> net.response[1].status_code,
                                 text |-> net.response[1].body.text]
               /\ ret.decoded = <<>>

C10_Witness ==
  /\ fn = "submit_function"
  /\ pc = "raise"
  /\ net.posts = 1
  /\ Answered
  /\ net.response[1].status_code = 201
  /\ WellFormed(fn, net.response[1].body)
  /\ ret.message.status_code = 201

\* ------------------------------------------------------------------------
\* repaint_result
\* ------------------------------------------------------------------------

\* The 255.0 a mask value is divided by.
MaskMax == 255

\* Heights and widths <<h, w>> of the three images.
RepaintSizes == (1..MaxSide) \X (1..MaxSide)

\* A float64 v of this function is the natural number v * 2^64, kept as its
\* digits in base 2^10, least significant first: every float that arises is
\* a multiple of 2^-64 below 2^8.
Limb == Pow(2, 10)

RECURSIVE Limbs(_)
Limbs(n) == IF n = 0 THEN <<>> ELSE <<n % Limb>> \o Limbs(n \div Limb)

RECURSIVE LimbsNat(_)
LimbsNat(a) == IF a = <<>> THEN 0 ELSE Head(a) + Limb * LimbsNat(Tail(a))

\* Without its leading zeros.
RECURSIVE Trim(_)
Trim(a) ==
  IF a # <<>> /\ a[Len(a)] = 0 THEN Trim(SubSeq(a, 1, Len(a) - 1)) ELSE a

RECURSIVE LimbsAdd(_, _, _)
LimbsAdd(a, b, carry) ==
  IF a = <<>> /\ b = <<>> THEN Limbs(carry)
  ELSE LET sum == (IF a = <<>> THEN 0 ELSE Head(a))
                    + (IF b = <<>> THEN 0 ELSE Head(b)) + carry
       IN  <<sum % Limb>>
             \o LimbsAdd(IF a = <<>> THEN <<>> ELSE Tail(a),
                         IF b = <<>> THEN <<>> ELSE Tail(b), sum \div Limb)

\* a - b - borrow for a >= b + borrow.
RECURSIVE LimbsSub(_, _, _)
LimbsSub(a, b, borrow) ==
  IF a = <<>> THEN <<>>
  ELSE LET y == (IF b = <<>> THEN 0 ELSE Head(b)) + borrow
       IN  <<(Head(a) + Limb - y) % Limb>>
             \o LimbsSub(Tail(a), IF b = <<>> THEN <<>> ELSE Tail(b),
                         IF Head(a) < y THEN 1 ELSE 0)

\* a * n + carry for a small n.
RECURSIVE LimbsMul(_, _, _)
LimbsMul(a, n, carry) ==
  IF a = <<>> THEN Limbs(carry)
  ELSE <<(Head(a) * n + carry) % Limb>>
         \o LimbsMul(Tail(a), n, (Head(a) * n + carry) \div Limb)

\* Quotient and remainder of a by a small divisor d, from the top digit down.
RECURSIVE LimbsDivMod(_, _)
LimbsDivMod(a, d) ==
  IF a = <<>> THEN [q |-> <<>>, r |-> 0]
  ELSE LET high == LimbsDivMod(Tail(a), d)
           cur  == Limb * high.r + Head(a)
       IN  [q |-> <<cur \div d>> \o high.q, r |-> cur % d]

\* The number of bits of n.
RECURSIVE BitLength(_)
BitLength(n) == IF n = 0 THEN 0 ELSE 1 + BitLength(n \div 2)

\* The significand of a float64, hidden bit included.
SignificandBits == 53

\* The float64 nearest to a (ties to even); `inexact` says that the number to
\* round lies above a by less than one unit. 10 is the number of bits of a
\* digit.
float64(a, inexact) ==
  LET t    == Trim(a)
      k    == 10 * (Len(t) - 1) + BitLength(t[Len(t)]) - SignificandBits
      low  == LimbsDivMod(t, Pow(2, k))
      half == Pow(2, k - 1)
      up   == \/ low.r > half
              \/ low.r = half /\ (inexact \/ Head(low.q) % 2 = 1)
  IN  IF t = <<>> \/ k <= 0 THEN t
      ELSE Trim(LimbsMul(IF up THEN LimbsAdd(low.q, <<1>>, 0) ELSE low.q, Pow(2, k), 0))

\* 1.0, the number 2^64.
One == [j \in 1..6 |-> 0] \o <<Pow(2, 4)>>

\* n / d in float64, for a natural n and a small natural d.
float_div(n, d) ==
  LET dm == LimbsDivMod(LimbsMul(One, n, 0), d)
  IN  float64(dm.q, dm.r # 0)

\* a + b in float64.
float_add(a, b) == float64(LimbsAdd(a, b, 0), FALSE)

\* a - b in float64, for a >= b.
float_sub(a, b) == float64(LimbsSub(a, b, 0), FALSE)

\* A uint8 value n times the float a, in float64.
float_mul(n, a) == float64(LimbsMul(a, n, 0), FALSE)

\* astype(np.uint8) of a float within 0..255: the fraction, the 64 bits
\* below digit 7 and the 4 low bits of that digit, is dropped.
astype_uint8(v) == LimbsNat(SubSeq(v, 7, Len(v))) \div Pow(2, 4)

\* result * mask + person * (1 - mask) with mask = m / 255.0, in float64
\* (3 * (5 / 255.0) + 3 * (1 - 5 / 255.0) is 2.9999999999999996).
blend(result, person, m) ==
  LET mask == float_div(m, MaskMax)
  IN  float_add(float_mul(result, mask), float_mul(person, float_sub(One, mask)))

repaint_result(result, person_image, mask_image) ==
  LET mask == Unsqueeze(mask_image, 2)
  IN  Returned(Tensor(result.shape,
                      [i \in Idx(result.shape) |->
                         astype_uint8(blend(result.data[i], person_image.data[i],
                                            mask.data[<<i[1], i[2], 1>>]))]))

\* Masks of one value (black, white, and the greys of a blurred edge), and
\* masks of mixed values.
RepaintMasks(shape) ==
  { Tensor(shape, [i \in Idx(shape) |-> m]) : m \in {0, 5, 128, 250, MaskMax} }
  \cup { Pixels(shape, sd) : sd \in TensorSeeds }

RepaintArgs ==
  UNION { { [result |-> Pixels(sz \o <<3>>, sr),
             person_image |-> Pixels(sz \o <<3>>, sp),
             mask_image |-> mask] :
            sr \in TensorSeeds, sp \in TensorSeeds, mask \in RepaintMasks(sz) } :
          sz \in RepaintSizes }

InitRepaint ==
  /\ fn = "repaint_result"
  /\ pc = "call"
  /\ args \in RepaintArgs
  /\ ret = None
  /\ net = NoNet

Repaint ==
  /\ fn = "repaint_result"
  /\ pc = "call"
  /\ ret' = repaint_result(args.result, args.person_image, args.mask_image)
  /\ pc' = ret'.kind
  /\ UNCHANGED <<fn, args, net>>

NextRepaint == Repaint

SpecRepaint == InitRepaint /\ [][NextRepaint]_vars

\* The mask value that applies to element <<y, x, c>>.
MaskAt(i) == args.mask_image.data[<<i[1], i[2]>>]

\* C11: a mask of 255 everywhere returns the result image and a mask of 0
\* everywhere the person image, pixel for pixel; in general every output
\* pixel is floor(result * m / 255 + person * (1 - m / 255)), within 0..255.
C11_FloorOfBlend ==
  (fn = "repaint_result" /\ pc # "call")
    => /\ pc = "return"
       /\ ret.value.shape = args.result.shape
       /\ (\A i \in Idx(args.result.shape) : MaskAt(i) = MaskMax)
            => ret.value.data = args.result.data
       /\ (\A i \in Idx(args.result.shape) : MaskAt(i) = 0)
            => ret.value.data = args.person_image.data
       /\ \A i \in Idx(args.result.shape) :
            /\ ret.value.data[i] \in 0..255
            /\ ret.value.data[i] =
                 (args.result.data[i] * MaskAt(i)
                    + args.person_image.data[i] * (MaskMax - MaskAt(i))) \div MaskMax

\* The two one-valued masks give back one of the two images unchanged.
C11_EndpointsExact ==
  (fn = "repaint_result" /\ pc # "call")
    => /\ pc = "return"
       /\ (\A i \in Idx(args.result.shape) : MaskAt(i) = MaskMax)
            => ret.value.data = args.result.data
       /\ (\A i \in Idx(args.result.shape) : MaskAt(i) = 0)
            => ret.value.data = args.person_image.data

\* ------------------------------------------------------------------------
\* prepare_mask_image
\* ------------------------------------------------------------------------

\* Faulty variant of resolve_rank: every 3-D tensor is taken for one mask.
resolve_rank_single(t) ==
  IF Len(t.shape) = 2 THEN Unsqueeze(Unsqueeze(t, 0), 0)
  ELSE IF Len(t.shape) = 3 THEN Unsqueeze(t, 0)
  ELSE t

\* Lines 203-213: the view of a tensor mask that is binarized and returned.
resolve_rank(t) ==
  IF Len(t.shape) = 2 THEN Unsqueeze(Unsqueeze(t, 0), 0)
  ELSE IF Len(t.shape) = 3 /\ t.shape[1] = 1 THEN Unsqueeze(t, 0)
  ELSE IF Len(t.shape) = 3 /\ t.shape[1] # 1 THEN Unsqueeze(t, 1)
  ELSE t

\* Faulty variant of binarize: only the first of the two assignments.
binarize_low(v, den) == IF 2 * v < den THEN 0 ELSE v

\* m[m < 0.5] = 0; m[m >= 0.5] = 1 on the element of value v / den.
binarize(v, den) == IF 2 * v < den THEN 0 ELSE 1

\* The tensor `base` after its view `view` (same storage, same element order)
\* was written in place.
written_through(base, view) ==
  Tensor(base.shape,
         [i \in Idx(base.shape) |->
            view.data[CHOOSE j \in Idx(view.shape) :
                        Linear(view.shape, j) = Linear(base.shape, i)]])

\* The result record carries, beside the returned tensor, the caller's
\* mask_image object as the call leaves it: a tensor is binarized in place
\* through the view of lines 203-213, while np.array and np.concatenate copy
\* a PIL image or an array before it is written.
prepare_mask_image(mask_image) ==
  IF mask_image.type = "tensor"
  THEN LET view == resolve_rank(mask_image.data)
           out  == Tensor(view.shape,
                          [i \in Idx(view.shape) |-> binarize(view.data[i], 1)])
       IN  [kind |-> "return", value |-> out,
            caller |-> [mask_image |->
                          [mask_image EXCEPT !.data = written_through(@, out)]]]
  ELSE LET items  == IF mask_image.type \in {"pil", "ndarray"} THEN <<mask_image>>
                     ELSE mask_image.items
           arrays == [k \in 1..Len(items) |-> Unsqueeze(Unsqueeze(items[k].data, 0), 0)]
           den    == IF items[1].type = "pil" THEN MaskMax ELSE 1
           error  ==
             IF items[1].type = "pil"
             THEN IF \E k \in 1..Len(items) : items[k].type # "pil"
                  THEN "AttributeError"         \* no convert() on an array or tensor
                  ELSE IF ~ConcatenateOk(arrays) THEN "ValueError" ELSE "none"
             ELSE IF items[1].type = "ndarray"
             THEN IF \E k \in 1..Len(items) : items[k].type = "pil"
                  THEN "TypeError"              \* a PIL image is not subscriptable
                  ELSE IF ~ConcatenateOk(arrays) THEN "ValueError" ELSE "none"
             ELSE "TypeError"                   \* list < 0.5
       IN  IF error # "none"
           THEN [kind |-> "raise", error |-> error, caller |-> [mask_image |-> mask_image]]
           ELSE [kind |-> "return",
                 value |-> Tensor(Concatenate(arrays).shape,
                                  [i \in Idx(Concatenate(arrays).shape) |->
                                     binarize(Concatenate(arrays).data[i], den)]),
                 caller |-> [mask_image |-> mask_image]]

\* One mask of height h and width w, in each form a list element can take;
\* the PIL masks are of mode "L".
MaskForms(h, w) ==
  { [type |-> tp, data |-> Pixels(<<h, w>>, sd)] :
    tp \in {"pil", "ndarray", "tensor"}, sd \in TensorSeeds }

MaskArgs ==
  UNION { { mk \in MaskForms(h, w) : mk.type # "tensor" }
          \cup { [type |-> "tensor", data |-> Pixels(shp, sd)] :
                 shp \in {<<h, w>>, <<1, 1, h, w>>} \cup { <<b, h, w>> : b \in 1..MaxBatch },
                 sd \in TensorSeeds }
          \cup { [type |-> "list", items |-> items] :
                 items \in UNION { [1..n -> MaskForms(h, w)] : n \in 1..MaxList } } :
          h \in 1..MaxSide, w \in 1..MaxSide }

InitMask ==
  /\ fn = "prepare_mask_image"
  /\ pc = "call"
  /\ args \in { [mask_image |-> mk] : mk \in MaskArgs }
  /\ ret = None
  /\ net = NoNet

PrepareMask ==
  /\ fn = "prepare_mask_image"
  /\ pc = "call"
  /\ ret' = prepare_mask_image(args.mask_image)
  /\ pc' = ret'.kind
  /\ UNCHANGED <<fn, args, net>>

NextMask == PrepareMask

SpecMask == InitMask /\ [][NextMask]_vars

MaskItems(mask) == IF mask.type = "list" THEN mask.items ELSE <<mask>>

\* A tensor, a single PIL image or array, or a list of masks of one of these
\* two types.
IsMaskOrList(mask) ==
  \/ mask.type = "tensor"
  \/ \A k \in 1..Len(MaskItems(mask)) :
       /\ MaskItems(mask)[k].type \in {"pil", "ndarray"}
       /\ MaskItems(mask)[k].type = MaskItems(mask)[1].type

\* The input value, in 0..255, that element <<n, c, h, w>> of the result is
\* computed from.
SourceMask(mask, i) ==
  IF mask.type # "tensor" THEN MaskItems(mask)[i[1]].data.data[<<i[3], i[4]>>]
  ELSE IF Len(mask.data.shape) = 2 THEN mask.data.data[<<i[3], i[4]>>]
  ELSE IF Len(mask.data.shape) = 3 THEN mask.data.data[<<i[1], i[3], i[4]>>]
  ELSE mask.data.data[i]

\* C12 as written: for a mask of values 0..255 in every input form, every
\* element of the output is 0 or 1: 0 where the input value is below 0.5 and
\* 1 where it is 0.5 or more.
C12_InputThreshold ==
  (fn = "prepare_mask_image" /\ pc # "call" /\ IsMaskOrList(args.mask_image))
    => /\ pc = "return"
       /\ \A i \in Idx(ret.value.shape) :
            /\ ret.value.data[i] \in {0, 1}
            /\ ret.value.data[i] =
                 IF 2 * SourceMask(args.mask_image, i) < 1 THEN 0 ELSE 1

\* C12 amended: every element of the output is 0 or 1; a tensor or array is
\* compared with 0.5 as it is (0 gives 0, 1..255 give 1), a PIL image after
\* the division by 255 (0..127 give 0, 128..255 give 1).
C12_ThresholdAfterScaling ==
  (fn = "prepare_mask_image" /\ pc # "call" /\ IsMaskOrList(args.mask_image))
    => /\ pc = "return"
       /\ \A i \in Idx(ret.value.shape) :
            /\ ret.value.data[i] \in {0, 1}
            /\ SourceMask(args.mask_image, i) \in 0..255
            /\ IF MaskItems(args.mask_image)[1].type = "pil"
               THEN (ret.value.data[i] = 0) <=> (SourceMask(args.mask_image, i) \in 0..127)
               ELSE (ret.value.data[i] = 0) <=> (SourceMask(args.mask_image, i) = 0)

C12_Witness ==
  /\ fn = "prepare_mask_image" /\ pc = "return"
  /\ args.mask_image.type = "list"
  /\ Len(args.mask_image.items) = 2
  /\ args.mask_image.items[1].type = "pil"
  /\ \E i \in Idx(ret.value.shape) :
       SourceMask(args.mask_image, i) = 127 /\ ret.value.data[i] = 0
  /\ \E i \in Idx(ret.value.shape) :
       SourceMask(args.mask_image, i) = 128 /\ ret.value.data[i] = 1

\* C13: a tensor mask of shape (H, W) becomes (1, 1, H, W); of shape
\* (1, H, W), one mask, (1, 1, H, W); of shape (B, H, W) with B # 1, a batch,
\* (B, 1, H, W). Every 2-D or 3-D tensor gives a 4-D result of one channel
\* that holds the binarized element of each input position.
C13_RankResolution ==
  (/\ fn = "prepare_mask_image" /\ pc # "call"
   /\ args.mask_image.type = "tensor"
   /\ Len(args.mask_image.data.shape) \in {2, 3})
    => LET shp == args.mask_image.data.shape
       IN  /\ pc = "return"
           /\ Len(ret.value.shape) = 4
           /\ ret.value.shape[2] = 1
           /\ Len(shp) = 2 => ret.value.shape = <<1, 1, shp[1], shp[2]>>
           /\ (Len(shp) = 3 /\ shp[1] = 1) => ret.value.shape = <<1, 1, shp[2], shp[3]>>
           /\ (Len(shp) = 3 /\ shp[1] # 1) => ret.value.shape = <<shp[1], 1, shp[2], shp[3]>>
           /\ \A i \in Idx(ret.value.shape) :
                ret.value.data[i] = binarize(SourceMask(args.mask_image, i), 1)

C13_Witness ==
  /\ fn = "prepare_mask_image" /\ pc = "return"
  /\ args.mask_image.type = "tensor"
  /\ args.mask_image.data.shape = <<2, 1, 2>>
  /\ ret.value.shape = <<2, 1, 1, 2>>
  /\ \E i \in Idx(ret.value.shape) : ret.value.data[i] = 0
  /\ \E i \in Idx(ret.value.shape) : ret.value.data[i] = 1

\* ------------------------------------------------------------------------
\* The arguments after a call of prepare_mask_image or of
\* compute_dream_and_update_latents_for_inpaint
\* ------------------------------------------------------------------------

InitPure == InitMask \/ InitDream

NextPure == NextMask \/ NextDream

SpecPure == InitPure /\ [][NextPure]_vars

\* C16: after prepare_mask_image returns, the caller's mask object (tensor,
\* array or PIL image) holds the values it held before the call; after
\* compute_dream_and_update_latents_for_inpaint returns, so do the caller's
\* noise, noisy_latents and target.
C16_ArgumentsUnchanged ==
  /\ (fn = "prepare_mask_image" /\ pc = "return")
       => ret.caller.mask_image = args.mask_image
  /\ DreamReturned
       => /\ ret.caller.noise = args.noise
          /\ ret.caller.noisy_latents = args.noisy_latents
          /\ ret.caller.target = args.target

\* What does hold: only a tensor mask is written, and it is left holding its
\* own binarized values; PIL images, arrays, lists and the three tensors of
\* the DREAM helper are left as they were.
C16_OnlyTensorMaskWritten ==
  /\ (fn = "prepare_mask_image" /\ pc = "return")
       => IF args.mask_image.type = "tensor"
          THEN /\ ret.caller.mask_image.data.shape = args.mask_image.data.shape
               /\ \A i \in Idx(args.mask_image.data.shape) :
                    ret.caller.mask_image.data.data[i] =
                      binarize(args.mask_image.data.data[i], 1)
          ELSE ret.caller.mask_image = args.mask_image
  /\ DreamReturned
       => /\ ret.caller.noise = args.noise
          /\ ret.caller.noisy_latents = args.noisy_latents
          /\ ret.caller.target = args.target

\* ------------------------------------------------------------------------
\* scan_files_in_dir
\* ------------------------------------------------------------------------

\* Directories nested at most MaxDepth deep below the scanned one, of at
\* most MaxEntries entries each.
MaxDepth == 3

MaxEntries == 3

\* File and directory names, as sequences of characters.
NameList ==
  << <<"a", ".", "j">>, <<"b", ".", "t">>, <<".", "j">>, <<"c">>, <<"d", ".", "j", ".", "t">> >>

\* What is_file() and is_dir() tell of an entry: "other" is neither (a
\* socket, a broken link).
Kinds == <<"file", "dir", "file", "other", "dir">>

\* The entries of the directory `path`, drawn from the number h.
Entries(path, h) ==
  { [path |-> Append(path, NameList[((h + k) % Len(NameList)) + 1]),
     kind |-> Kinds[((h + 2 * k) % Len(Kinds)) + 1],
     h    |-> 3 * h + k] :
    k \in 1..(h % (MaxEntries + 1)) }

\* Every entry below the directory `path`: a finite tree of directories,
\* files and other entries, without links.
RECURSIVE Under(_, _, _)
Under(path, h, depth) ==
  Entries(path, h)
    \cup UNION { IF e.kind = "dir" /\ depth < MaxDepth
                 THEN Under(e.path, e.h, depth + 1) ELSE {} :
                 e \in Entries(path, h) }

FsSeeds == 0..19

\* os.scandir(directory): the entries directly in it.
scandir(fs, directory) ==
  { e \in fs : /\ Len(e.path) = Len(directory) + 1
               /\ SubSeq(e.path, 1, Len(directory)) = directory }

\* os.path.splitext(path)[1]: the last component from its last dot on,
\* empty when there is no dot or only dots before it.
splitext(path) ==
  LET name == path[Len(path)]
      dots == { i \in 1..Len(name) : name[i] = "." }
      last == CHOOSE i \in dots : \A j \in dots : j <= i
  IN  IF dots = {} THEN <<>>
      ELSE IF \A j \in 1..(last - 1) : name[j] = "." THEN <<>>
      ELSE SubSeq(name, last, Len(name))

\* Faulty variant of accepts: the postfix is not looked at.
accepts_any(entry, postfix) == TRUE

\* postfix is None or os.path.splitext(entry.path)[1] in postfix
accepts(entry, postfix) ==
  postfix = None \/ splitext(entry.path) \in postfix.members

Postfixes ==
  { None } \cup { [kind |-> "set", members |-> m] :
                  m \in { {}, { <<".", "j">> }, { <<".", "j">>, <<".", "t">> } } }

\* tqdm(total=0)
NewBar == [total |-> 0, n |-> 0]

ProgressBars == { None, NewBar, [total |-> 2, n |-> 1] }

\* The directory to scan is the top of a tree or a directory directly in it.
ScanArgs ==
  UNION { { [fs |-> Under(<<>>, sd, 1), directory |-> d, postfix |-> pf,
             progress_bar |-> bar] :
            d \in {<<>>} \cup { e.path : e \in { x \in Entries(<<>>, sd) : x.kind = "dir" } },
            pf \in Postfixes, bar \in ProgressBars } :
          sd \in FsSeeds }

InitScan ==
  /\ fn = "scan_files_in_dir"
  /\ pc = "call"
  /\ args \in ScanArgs
  /\ ret = None
  /\ net = NoNet

\* A call of scan_files_in_dir(directory, ...) at line 388: its entries not
\* yet seen and its file_list.
Frame(directory) ==
  [directory |-> directory, pending |-> scandir(args.fs, directory), file_list |-> <<>>]

\* While the scan runs, ret holds the stack of calls, innermost last, and the
\* progress bar all of them share.
Running(stack, bar) == [kind |-> "scan", stack |-> stack, progress_bar |-> bar]

Scanning == fn = "scan_files_in_dir" /\ pc = "scan"

Top == ret.stack[Len(ret.stack)]

\* The stack with entry e of the innermost call seen, and its file_list
\* extended by `found`.
Seen(e, found) ==
  [ret.stack EXCEPT ![Len(ret.stack)] =
     [@ EXCEPT !.pending = @ \ {e}, !.file_list = @ \o found]]

\* Lines 386-387 of the outermost call.
ScanCall ==
  /\ fn = "scan_files_in_dir"
  /\ pc = "call"
  /\ ret' = Running(<<Frame(args.directory)>>,
                    IF args.progress_bar = None THEN NewBar ELSE args.progress_bar)
  /\ pc' = ret'.kind
  /\ UNCHANGED <<fn, args, net>>

\* Lines 389-393: the next entry is a file.
ScanFile ==
  /\ Scanning
  /\ \E e \in Top.pending :
       /\ e.kind = "file"
       /\ ret' = IF accepts(e, args.postfix)
                 THEN Running(Seen(e, <<e>>),
                              [total |-> ret.progress_bar.total + 1,
                               n |-> ret.progress_bar.n + 1])
                 ELSE Running(Seen(e, <<>>), ret.progress_bar)
  /\ pc' = ret'.kind
  /\ UNCHANGED <<fn, args, net>>

\* Lines 394-395: the next entry is a directory; the recursive call starts.
ScanDir ==
  /\ Scanning
  /\ \E e \in Top.pending :
       /\ e.kind = "dir"
       /\ ret' = Running(Append(Seen(e, <<>>), Frame(e.path)), ret.progress_bar)
  /\ pc' = ret'.kind
  /\ UNCHANGED <<fn, args, net>>

\* The next entry is neither a file nor a directory.
ScanOther ==
  /\ Scanning
  /\ \E e \in Top.pending :
       /\ e.kind \notin {"file", "dir"}
       /\ ret' = Running(Seen(e, <<>>), ret.progress_bar)
  /\ pc' = ret'.kind
  /\ UNCHANGED <<fn, args, net>>

\* Line 396 of a recursive call, and the += of line 395 in its caller.
ScanReturnInner ==
  /\ Scanning
  /\ Top.pending = {}
  /\ Len(ret.stack) > 1
  /\ ret' = Running([SubSeq(ret.stack, 1, Len(ret.stack) - 1)
                       EXCEPT ![Len(ret.stack) - 1].file_list = @ \o Top.file_list],
                    ret.progress_bar)
  /\ pc' = ret'.kind
  /\ UNCHANGED <<fn, args, net>>

\* Line 396 of the outermost call.
ScanReturn ==
  /\ Scanning
  /\ Top.pending = {}
  /\ Len(ret.stack) = 1
  /\ ret' = [kind |-> "return", value |-> Top.file_list, progress_bar |-> ret.progress_bar]
  /\ pc' = ret'.kind
  /\ UNCHANGED <<fn, args, net>>

NextScan ==
  \/ ScanCall
  \/ ScanFile
  \/ ScanDir
  \/ ScanOther
  \/ ScanReturnInner
  \/ ScanReturn

SpecScan == InitScan /\ [][NextScan]_vars

\* The interpreter runs the call to its end.
SpecScanLive == SpecScan /\ WF_vars(NextScan)

ScanReturned == fn = "scan_files_in_dir" /\ pc = "return"

\* The files anywhere below the scanned directory that the postfix admits.
WantedFiles ==
  { e \in args.fs :
      /\ e.kind = "file"
      /\ Len(e.path) > Len(args.directory)
      /\ SubSeq(e.path, 1, Len(args.directory)) = args.directory
      /\ (args.postfix # None => splitext(e.path) \in args.postfix.members) }

\* The returned list holds each wanted file once and nothing else, and the
\* total of a progress bar the call made itself is the length of the list.
ScanCorrect ==
  /\ \A k \in 1..Len(ret.value) : ret.value[k] \in WantedFiles /\ ret.value[k].kind # "dir"
  /\ \A e \in WantedFiles : Cardinality({ k \in 1..Len(ret.value) : ret.value[k] = e }) = 1
  /\ args.progress_bar = None => ret.progress_bar.total = Len(ret.value)

\* C14: on every finite directory tree scan_files_in_dir returns, and the
\* list it returns is flat and holds each regular file below the directory,
\* at any depth, exactly once - of the files whose extension is in postfix
\* when postfix is given - and no directory; the total of a progress bar it
\* created itself equals the length of the list.
C14_TerminatesWithEveryFile ==
  /\ <>(pc = "return")
  /\ [](ScanReturned => ScanCorrect)

C14_Witness ==
  /\ ScanReturned
  /\ ScanCorrect
  /\ args.postfix # None /\ args.postfix.members = { <<".", "j">> }
  /\ args.progress_bar = None
  /\ ret.progress_bar.total = Len(ret.value)
  /\ \E k \in 1..Len(ret.value) : Len(ret.value[k].path) > 1
  /\ \E e \in args.fs : e.kind = "file" /\ e \notin WantedFiles
  /\ \E e \in args.fs : e.kind = "dir" /\ splitext(e.path) = <<".", "j">>

====
